---- MODULE Spec2Model ----
(***************************************************************************)
(* Model of scripts/void_service.py: the stdio bridge that serves the      *)
(* VoidMemoryManager over newline-delimited JSON.                          *)
(*                                                                         *)
(* The bridge (load_manager, persist_manager, register_and_reinforce,      *)
(* iter_requests, ensure_manager, main) is translated from the source.     *)
(* The VoidMemoryManager class itself (src.void_dynamics.manager) is an    *)
(* imported collaborator; its operations are modelled from the operation   *)
(* contract of the specification and are named VMM_*.                      *)
(***************************************************************************)
EXTENDS Integers, Sequences, FiniteSets, TLC

VARIABLES
    pc,                 \* position of main: "running", "stopped", "eof", "crashed"
    unread,             \* number of raw lines still waiting on sys.stdin
    manager,            \* main's local `manager`: None or Some(handle)
    cached_config_hash, \* main's local `cached_config_hash`: None or Some(text)
    file,               \* content of STATE_PATH on disk
    out,                \* sys.stdout: the most recent lines printed, in order
    nout,               \* sys.stdout: number of lines printed so far
    nreq,               \* number of lines yielded by iter_requests so far
    log,                \* history: the most recent requests, one record each
    delivered,          \* history: events returned in responses, in order
    unsaved,            \* history: chunks registered in memory since the last
                        \* save, by requests that did not save
    nfaults,            \* history: number of collaborator / IO failures so far
    fp_inputs,          \* fingerprint check: the two configurations given
    fp_hashes           \* fingerprint check: their fingerprints, once computed

vars ==
    <<pc, unread, manager, cached_config_hash, file, out, nout, nreq, log,
      delivered, unsaved, nfaults, fp_inputs, fp_hashes>>

-----------------------------------------------------------------------------
(* Bounds of the model                                                     *)

MaxLines  == 3      \* raw lines on stdin
MaxFaults == 1      \* collaborator / IO calls that raise during the run
MaxValue  == 2      \* numbers 1..MaxValue in the configurations fingerprinted

-----------------------------------------------------------------------------
(* Optional values                                                         *)

None == << >>
Some(x) == <<x>>
IsNone(o) == Len(o) = 0
Get(o) == o[1]

Last(s) == s[Len(s)]

Count(s, x) == Len(SelectSeq(s, LAMBDA e : e = x))

\* the history variables keep the two most recent entries
Remember(s, e) == Append(IF Len(s) < 2 THEN s ELSE Tail(s), e)

-----------------------------------------------------------------------------
(* Configurations and their JSON text                                      *)

\* keyword arguments of the constructor call, in the order they are read
ParamNames ==
    << "capacity", "base_ttl", "decay_half_life", "prune_sample",
       "prune_target_ratio", "recency_half_life_ticks", "habituation_start",
       "habituation_scale", "boredom_weight", "frontier_novelty_threshold",
       "frontier_patience", "diffusion_interval", "diffusion_kappa",
       "exploration_churn_window" >>

\* the same names in the order sort_keys puts them (string order)
SortedKeys ==
    << "base_ttl", "boredom_weight", "capacity", "decay_half_life",
       "diffusion_interval", "diffusion_kappa", "exploration_churn_window",
       "frontier_novelty_threshold", "frontier_patience", "habituation_scale",
       "habituation_start", "prune_sample", "prune_target_ratio",
       "recency_half_life_ticks" >>

\* A configuration is a dict: a sequence of <<key, value>> pairs in insertion
\* order, keys distinct.
HasKey(config, k) == \E i \in 1..Len(config) : config[i][1] = k

Lookup(config, k) ==
    config[CHOOSE i \in 1..Len(config) : config[i][1] = k][2]

\* variant: the pairs are written in insertion order
json_dumps_unsorted(config) == config

\* json.dumps(config, sort_keys=True): the pairs written in key order.  The
\* text is represented by the sequence of pairs it spells out; a value is
\* written as it is, an array with its elements in their order.
json_dumps_sorted(config) ==
    LET present == SelectSeq(SortedKeys, LAMBDA k : HasKey(config, k))
    IN  [i \in 1..Len(present) |-> <<present[i], Lookup(config, present[i])>>]

Reverse(s) == [i \in 1..Len(s) |-> s[Len(s) + 1 - i]]

CfgA == [i \in 1..Len(ParamNames) |-> <<ParamNames[i], 1>>]
CfgAReordered == Reverse(CfgA)
CfgB == [i \in 1..Len(ParamNames) |->
            <<ParamNames[i], IF ParamNames[i] = "capacity" THEN 2 ELSE 1>>]
CfgPartial == << <<"capacity", 1>> >>

-----------------------------------------------------------------------------
(* Input lines                                                             *)

\* Bodies of the lines a caller may write.  syntax = "garbage" is text that
\* is not JSON; otherwise `type` is the type of the decoded value and, for an
\* object, `keys` are its fields.  ids are chunk ids; reinforce is the
\* 'reinforce' object, a dict like a configuration; heat_gain is the text of
\* the number given, ttl_boost an integer.  A field that is not among `keys`
\* holds a placeholder.
Doc(syntax, type, keys, command, configIsDict, config, ids, reinforce) ==
    [syntax |-> syntax, type |-> type, keys |-> keys, command |-> command,
     configIsDict |-> configIsDict, config |-> config, ids |-> ids,
     reinforce |-> reinforce, heat_gain |-> "", ttl_boost |-> 0]

\* a register request; reinforce is None when the field is not sent
RegisterDoc(config, ids, reinforce) ==
    Doc("json", "object",
        {"command", "config", "ids", "texts"}
            \cup (IF IsNone(reinforce) THEN {} ELSE {"reinforce"}),
        "register", TRUE, config, ids,
        IF IsNone(reinforce) THEN << >> ELSE Get(reinforce))

\* the request with the fields heat_gain and ttl_boost added
Tuned(doc, heat_gain, ttl_boost) ==
    [doc EXCEPT !.keys = @ \cup {"heat_gain", "ttl_boost"},
                !.heat_gain = heat_gain, !.ttl_boost = ttl_boost]

Docs ==
    << Doc("empty", "none", {}, "", FALSE, << >>, {}, << >>),
       Doc("garbage", "none", {}, "", FALSE, << >>, {}, << >>),
       Doc("json", "array", {}, "", FALSE, << >>, {}, << >>),
       Doc("json", "object", {"command"}, "__shutdown__", FALSE, << >>, {}, << >>),
       Doc("json", "object", {"command", "config"}, "__shutdown__", TRUE, CfgA, {}, << >>),
       Doc("json", "object", {"command"}, "register", FALSE, << >>, {}, << >>),
       Doc("json", "object", {"command", "config"}, "register", FALSE, << >>, {}, << >>),
       RegisterDoc(CfgA, {1}, Some(<< >>)),
       RegisterDoc(CfgAReordered, {2}, Some(<< <<"ids", <<2>>>> >>)),
       Tuned(RegisterDoc(CfgB, {2}, None), "0.9", 30),
       Tuned(RegisterDoc(CfgPartial, {1},
                         Some(<< <<"distances", <<7>>>>, <<"weights", <<4>>>>,
                                 <<"ids", <<3>>>> >>)),
             "0.9", 30),
       Doc("json", "object", {"command", "config", "texts"}, "register", TRUE, CfgA, {}, << >>),
       Doc("json", "object", {"command", "config"}, "refresh", TRUE, CfgA, {}, << >>),
       Doc("json", "object", {"command", "config"}, "refresh", TRUE, CfgPartial, {}, << >>),
       Doc("json", "object", {"command", "config", "ids"}, "register", TRUE, CfgB, {3}, << >>) >>

\* A raw line of sys.stdin: a body, possibly surrounded by whitespace.
RawLines ==
    { [pad |-> p, body |-> b] : p \in {FALSE}, b \in 1..Len(Docs) }
        \cup { [pad |-> TRUE, body |-> 1] }

\* str.strip(): the surrounding whitespace is dropped, the body is kept
strip(raw_line) == raw_line.body

\* truth value of a str: non-empty
Truthy(line) == Docs[line].syntax # "empty"

\* json.loads(raw_payload)
json_loads(raw_payload) ==
    IF Docs[raw_payload].syntax = "garbage"
        THEN [raised |-> TRUE, payload |-> Docs[raw_payload]]
        ELSE [raised |-> FALSE, payload |-> Docs[raw_payload]]

\* payload.get('command') and payload.get('config') need a dict
HasGet(payload) == payload.type = "object"

dict_get_command(payload) ==
    IF "command" \in payload.keys THEN Some(payload.command) ELSE None

\* variant: any config that is present passes
config_is_present(payload) == "config" \in payload.keys

\* isinstance(payload.get('config'), dict)
config_is_dict(payload) == "config" \in payload.keys /\ payload.configIsDict

-----------------------------------------------------------------------------
(* The VoidMemoryManager collaborator and the state file                   *)

\* A handle: its identity, the constructor parameters it runs with, the
\* chunks it holds and its queue of undelivered events.
Handle(id, params, chunks, queue) ==
    [id |-> id, params |-> params, chunks |-> chunks, queue |-> queue]

\* Content of STATE_PATH.  kind "absent": no file; "null": a file from which
\* load_json yields None; "state": a serialized manager.
FileOf(kind, params, chunks, queue) ==
    [kind |-> kind, params |-> params, chunks |-> chunks, queue |-> queue]

FileAbsent == FileOf("absent", << >>, {}, << >>)
FileNull == FileOf("null", << >>, {}, << >>)

\* the parameters a constructor call stores
ParamsOf(config) == [i \in 1..Len(ParamNames) |-> Lookup(config, ParamNames[i])]

\* VoidMemoryManager(**params)
VMM_construct(params, newId) == Handle(newId, params, {}, << >>)

\* VoidMemoryManager.load_json(path): a restored handle, or None
VMM_load_json(f, newId) ==
    IF f.kind = "state"
        THEN Some(Handle(newId, f.params, f.chunks, f.queue))
        ELSE None

\* manager.save_json(path): the whole state of the handle is written
VMM_save_json(handle) ==
    FileOf("state", handle.params, handle.chunks, handle.queue)

\* manager.register_chunks(ids, raw_texts): the chunks are stored and the
\* registration is queued as the event `ev`.  A call that raises leaves the
\* handle as it was.
VMM_register_chunks(handle, ids, ev) ==
    [handle EXCEPT !.chunks = @ \cup ids, !.queue = Append(@, ev)]

\* manager.consume_events(): the queue is returned and emptied
VMM_consume_events(handle) ==
    [events |-> handle.queue, handle |-> [handle EXCEPT !.queue = << >>]]

\* the call of the collaborator or of the file system that raises in a
\* request, if it is reached: in ensure_manager, in register_and_reinforce
ResolveFaults == { "none", "load_json", "construct" }

CommandFaults ==
    { "none", "register_chunks", "reinforce", "save_json", "stats",
      "consume_events", "top" }

-----------------------------------------------------------------------------
(* load_manager, persist_manager, ensure_manager                           *)

LoadResult(raised, detail, handle, calls, faulted) ==
    [raised |-> raised, detail |-> detail, handle |-> handle, calls |-> calls,
     faulted |-> faulted]

\* variant: the constructor parameters are read before the file is tried
load_manager_config_first(config, f, fault, newId) ==
    LET exists == f.kind # "absent"
        tried == IF exists THEN <<"exists", "load_json">> ELSE <<"exists">>
        missing == SelectSeq(ParamNames, LAMBDA k : ~HasKey(config, k))
    IN  IF Len(missing) > 0
            THEN LoadResult(TRUE, missing[1], None, << >>, FALSE)
        ELSE IF exists /\ fault = "load_json"
            THEN LoadResult(TRUE, "load_json", None, tried, TRUE)
        ELSE IF exists /\ ~IsNone(VMM_load_json(f, newId))
            THEN LoadResult(FALSE, "", VMM_load_json(f, newId), tried, FALSE)
        ELSE IF fault = "construct"
            THEN LoadResult(TRUE, "construct", None,
                            Append(tried, "construct"), TRUE)
        ELSE LoadResult(FALSE, "",
                        Some(VMM_construct(ParamsOf(config), newId)),
                        Append(tried, "construct"), FALSE)

load_manager(config, f, fault, newId) ==
    LET exists == f.kind # "absent"
        tried == IF exists THEN <<"exists", "load_json">> ELSE <<"exists">>
        missing == SelectSeq(ParamNames, LAMBDA k : ~HasKey(config, k))
    IN  IF exists /\ fault = "load_json"
            THEN LoadResult(TRUE, "load_json", None, tried, TRUE)
        ELSE IF exists /\ ~IsNone(VMM_load_json(f, newId))
            THEN LoadResult(FALSE, "", VMM_load_json(f, newId), tried, FALSE)
        ELSE IF Len(missing) > 0
            THEN LoadResult(TRUE, missing[1], None, tried, FALSE)
        ELSE IF fault = "construct"
            THEN LoadResult(TRUE, "construct", None,
                            Append(tried, "construct"), TRUE)
        ELSE LoadResult(FALSE, "",
                        Some(VMM_construct(ParamsOf(config), newId)),
                        Append(tried, "construct"), FALSE)

\* variant: the state is not written
persist_manager_skips(handle, f, fault) ==
    [raised |-> FALSE, file |-> f, calls |-> <<"mkdir">>]

persist_manager(handle, f, fault) ==
    IF fault = "save_json"
        THEN [raised |-> TRUE, file |-> f, calls |-> <<"mkdir", "save_json">>]
        ELSE [raised |-> FALSE, file |-> VMM_save_json(handle),
              calls |-> <<"mkdir", "save_json">>]

\* variant: the cached pair is never reused
ensure_manager_no_cache(mgr, cached, config, f, fault, newId) ==
    LET config_hash == json_dumps_sorted(config)
        r == load_manager(config, f, fault, newId)
    IN  [raised |-> r.raised, detail |-> r.detail,
         manager |-> r.handle, hash |-> Some(config_hash),
         calls |-> <<"load_manager">> \o r.calls,
         faulted |-> r.faulted, hit |-> FALSE]

\* variant: a cached handle is reused whatever its fingerprint
ensure_manager_any_cached(mgr, cached, config, f, fault, newId) ==
    LET config_hash == json_dumps_sorted(config)
    IN  IF ~IsNone(mgr)
            THEN [raised |-> FALSE, detail |-> "", manager |-> mgr,
                  hash |-> Some(config_hash), calls |-> << >>,
                  faulted |-> FALSE, hit |-> TRUE]
            ELSE LET r == load_manager(config, f, fault, newId)
                 IN  [raised |-> r.raised, detail |-> r.detail,
                      manager |-> r.handle, hash |-> Some(config_hash),
                      calls |-> <<"load_manager">> \o r.calls,
                      faulted |-> r.faulted, hit |-> FALSE]

\* The result of ensure_manager: the pair it returns (manager, hash) unless
\* it raised; `hit` tells that the cached pair was returned.
ensure_manager(mgr, cached, config, f, fault, newId) ==
    LET config_hash == json_dumps_sorted(config)
    IN  IF ~IsNone(mgr) /\ cached = Some(config_hash)
            THEN [raised |-> FALSE, detail |-> "", manager |-> mgr,
                  hash |-> Some(config_hash), calls |-> << >>,
                  faulted |-> FALSE, hit |-> TRUE]
            ELSE LET r == load_manager(config, f, fault, newId)
                 IN  [raised |-> r.raised, detail |-> r.detail,
                      manager |-> r.handle, hash |-> Some(config_hash),
                      calls |-> <<"load_manager">> \o r.calls,
                      faulted |-> r.faulted, hit |-> FALSE]

-----------------------------------------------------------------------------
(* register_and_reinforce                                                  *)

\* variant: a key that was not supplied is forwarded with an empty value
build_results_payload_defaulting(reinforce) ==
    << <<"ids", IF HasKey(reinforce, "ids")
                    THEN Lookup(reinforce, "ids") ELSE << >> >>,
       <<"distances", IF HasKey(reinforce, "distances")
                        THEN Lookup(reinforce, "distances") ELSE << >> >> >>

\* results_payload: the keys 'ids' and 'distances' of the reinforce object
\* that are there, with their values
build_results_payload(reinforce) ==
    (IF HasKey(reinforce, "ids")
        THEN << <<"ids", Lookup(reinforce, "ids")>> >> ELSE << >>)
    \o (IF HasKey(reinforce, "distances")
        THEN << <<"distances", Lookup(reinforce, "distances")>> >> ELSE << >>)

\* payload.get('heat_gain', 0.5) and payload.get('ttl_boost', 60)
DefaultHeatGain == "0.5"
DefaultTtlBoost == 60

\* the arguments of one manager.reinforce call
ReinforceCall(results, heat_gain, ttl_boost) ==
    [results |-> results, heat_gain |-> heat_gain, ttl_boost |-> ttl_boost]

\* fwd: the manager.reinforce call made, or None
\* variant: the handle is saved however the call ends
RegResultSaved(raised, detail, handle, f, calls, events, fwd, faulted) ==
    [raised |-> raised, detail |-> detail, handle |-> handle,
     file |-> VMM_save_json(handle), calls |-> calls, events |-> events,
     fwd |-> fwd, faulted |-> faulted]

RegResult(raised, detail, handle, f, calls, events, fwd, faulted) ==
    [raised |-> raised, detail |-> detail, handle |-> handle, file |-> f,
     calls |-> calls, events |-> events, fwd |-> fwd, faulted |-> faulted]

\* variant: only payload['ids'] is subscripted
missing_key_ids_only(payload) ==
    IF "ids" \notin payload.keys THEN Some("ids") ELSE None

\* ids = payload['ids']; texts = payload['texts']: the key of the KeyError
\* raised, if one is
missing_key(payload) ==
    IF "ids" \notin payload.keys THEN Some("ids")
    ELSE IF "texts" \notin payload.keys THEN Some("texts")
    ELSE None

\* `ev` names the event that this call of register_chunks queues.
register_and_reinforce(handle, payload, f, fault, ev) ==
    IF ~IsNone(missing_key(payload))
        THEN RegResult(TRUE, Get(missing_key(payload)), handle, f,
                       << >>, << >>, None, FALSE)
    ELSE IF fault = "register_chunks"
        THEN RegResult(TRUE, "register_chunks", handle, f,
                       <<"register_chunks">>, << >>, None, TRUE)
    ELSE
    LET reinforce == IF "reinforce" \in payload.keys
                        THEN payload.reinforce ELSE << >>
        heat_gain == IF "heat_gain" \in payload.keys
                        THEN payload.heat_gain ELSE DefaultHeatGain
        ttl_boost == IF "ttl_boost" \in payload.keys
                        THEN payload.ttl_boost ELSE DefaultTtlBoost
        registered == VMM_register_chunks(handle, payload.ids, ev)
        results_payload == build_results_payload(reinforce)
        c1 == IF reinforce # << >>
                THEN <<"register_chunks", "reinforce">>
                ELSE <<"register_chunks">>
        fwd == IF reinforce # << >>
                THEN Some(ReinforceCall(results_payload, heat_gain, ttl_boost))
                ELSE None
        p == persist_manager(registered, f, fault)
        c2 == c1 \o p.calls
        drained == VMM_consume_events(registered)
    IN  IF reinforce # << >> /\ fault = "reinforce"
            THEN RegResult(TRUE, "reinforce", registered, f, c1, << >>, fwd, TRUE)
        ELSE IF p.raised
            THEN RegResult(TRUE, "save_json", registered, p.file, c2, << >>, fwd, TRUE)
        ELSE IF fault = "stats"
            THEN RegResult(TRUE, "stats", registered, p.file,
                           Append(c2, "stats"), << >>, fwd, TRUE)
        ELSE IF fault = "consume_events"
            THEN RegResult(TRUE, "consume_events", registered, p.file,
                           c2 \o <<"stats", "consume_events">>, << >>, fwd, TRUE)
        ELSE IF fault = "top"
            THEN RegResult(TRUE, "top", drained.handle, p.file,
                           c2 \o <<"stats", "consume_events", "top">>,
                           << >>, fwd, TRUE)
        ELSE RegResult(FALSE, "", drained.handle, p.file,
                       c2 \o <<"stats", "consume_events", "top">>,
                       drained.events, fwd, FALSE)

-----------------------------------------------------------------------------
(* main                                                                    *)

\* One printed line: the keys of the JSON object, the message and detail of
\* an error, the events of a result.  `req` is the number of the request
\* that was being handled when the line was printed.
Response(req, fields, msg, detail, events) ==
    [req |-> req, fields |-> fields, msg |-> msg, detail |-> detail,
     events |-> events]

ErrorLine(req, msg, detail) == Response(req, {"error"}, msg, detail, << >>)
AckLine(req) == Response(req, {"ok", "command"}, "__shutdown__", "", << >>)
ResultLine(req, events) ==
    Response(req, {"stats", "events", "top"}, "", "", events)

\* variant: the loop goes on after the acknowledgement
after_shutdown_continues == "running"

\* `return` after the acknowledgement
after_shutdown == "stopped"

\* variant: a failed resolution clears the session
bind_session_clears(res, mgr, cached) ==
    IF res.raised THEN <<None, None>> ELSE <<res.manager, res.hash>>

\* variant: the fingerprint is bound although the call raised
bind_session_hash_first(res, mgr, cached) ==
    IF res.raised THEN <<mgr, res.hash>> ELSE <<res.manager, res.hash>>

\* manager, cached_config_hash = ensure_manager(...): nothing is bound when
\* the call raises
bind_session(res, mgr, cached) ==
    IF res.raised THEN <<mgr, cached>> ELSE <<res.manager, res.hash>>

\* History of one request: its number, its line, the kind of response and
\* the line printed for it, the session and the file before it, the
\* fingerprint computed for it, whether the cached pair was returned, the
\* calls made by ensure_manager (rcalls) and by the command (calls), and the
\* reinforcement forwarded.
LogEntry(line, resp, printed, fp, hit, rcalls, calls, fwd) ==
    [req |-> nreq + 1, line |-> line, resp |-> resp, printed |-> printed,
     mgrBefore |-> manager, hashBefore |-> cached_config_hash,
     fileBefore |-> file, unsavedBefore |-> unsaved, fp |-> fp, hit |-> hit,
     rcalls |-> rcalls, calls |-> calls, fwd |-> fwd]

\* the chunks held in memory only, after register_and_reinforce returned or
\* raised with the result rr: none once save_json has returned, else those
\* of before and, if register_chunks returned, those of this request
Unsaved(before, payload, rr) ==
    IF Count(rr.calls, "save_json") = 1 /\ rr.detail # "save_json"
        THEN {}
    ELSE IF Count(rr.calls, "register_chunks") = 1
              /\ rr.detail # "register_chunks"
        THEN before \cup payload.ids
    ELSE before

\* the number of the request being handled
ReqNo == nreq + 1

\* the fault is drawn only where it is reached, and is counted
FaultOk(fault, faulted) ==
    /\ (fault # "none") = faulted
    /\ faulted => nfaults < MaxFaults

Resolve(payload, fault) ==
    ensure_manager(manager, cached_config_hash, payload.config, file, fault, ReqNo)

\* iter_requests yields `line`
Yield(raw_line, line) ==
    /\ pc = "running" /\ unread > 0
    /\ line = strip(raw_line)
    /\ Truthy(line)
    /\ unread' = unread - 1
    /\ nreq' = nreq + 1

\* print(json.dumps(...), flush=True)
Emit(response) ==
    /\ out' = Remember(out, response)
    /\ nout' = nout + 1
    /\ delivered' = delivered \o response.events

Init ==
    /\ pc = "running"
    /\ unread = MaxLines
    /\ manager = None
    /\ cached_config_hash = None
    /\ file \in {FileAbsent, FileNull}
    /\ out = << >>
    /\ nout = 0
    /\ nreq = 0
    /\ log = << >>
    /\ delivered = << >>
    /\ unsaved = {}
    /\ nfaults = 0
    /\ fp_inputs = << >>
    /\ fp_hashes = << >>

\* iter_requests: a line that is empty after strip() is not yielded
SkipBlank ==
    /\ pc = "running" /\ unread > 0
    /\ \E raw_line \in RawLines :
          /\ ~Truthy(strip(raw_line))
          /\ unread' = unread - 1
    /\ UNCHANGED <<fp_inputs, fp_hashes>>
    /\ UNCHANGED <<pc, manager, cached_config_hash, file, out, nout, nreq,
                   log, delivered, unsaved, nfaults>>

\* iter_requests is exhausted: the for loop ends and main returns
EndOfInput ==
    /\ pc = "running" /\ unread = 0
    /\ pc' = "eof"
    /\ UNCHANGED <<fp_inputs, fp_hashes>>
    /\ UNCHANGED <<unread, manager, cached_config_hash, file, out, nout, nreq,
                   log, delivered, unsaved, nfaults>>

\* json.loads raises JSONDecodeError
InvalidJson ==
    /\ \E raw_line \in RawLines :
          LET line == strip(raw_line)
              response == ErrorLine(ReqNo, "Invalid JSON payload", "JSONDecodeError")
          IN
          /\ Yield(raw_line, line)
          /\ json_loads(line).raised
          /\ Emit(response)
          /\ log' = Remember(log, LogEntry(line, "invalid_json", Some(response),
                                           None, FALSE, << >>, << >>, None))
    /\ UNCHANGED <<fp_inputs, fp_hashes>>
    /\ UNCHANGED <<pc, manager, cached_config_hash, file, unsaved, nfaults>>

\* payload.get on a decoded value that is not a dict: AttributeError, which
\* no handler of main catches
NotADict ==
    /\ \E raw_line \in RawLines :
          LET line == strip(raw_line) IN
          /\ Yield(raw_line, line)
          /\ ~json_loads(line).raised
          /\ ~HasGet(json_loads(line).payload)
          /\ pc' = "crashed"
          /\ log' = Remember(log, LogEntry(line, "traceback", None,
                                           None, FALSE, << >>, << >>, None))
    /\ UNCHANGED <<fp_inputs, fp_hashes>>
    /\ UNCHANGED <<manager, cached_config_hash, file, out, nout, delivered,
                   unsaved, nfaults>>

\* the line decodes to the dict `payload`
Decoded(line, payload) ==
    /\ ~json_loads(line).raised
    /\ payload = json_loads(line).payload
    /\ HasGet(payload)

Shutdown ==
    /\ \E raw_line \in RawLines :
          LET line == strip(raw_line)
              payload == json_loads(line).payload
              response == AckLine(ReqNo)
          IN
          /\ Yield(raw_line, line)
          /\ Decoded(line, payload)
          /\ dict_get_command(payload) = Some("__shutdown__")
          /\ Emit(response)
          /\ pc' = after_shutdown
          /\ log' = Remember(log, LogEntry(line, "ack", Some(response),
                                           None, FALSE, << >>, << >>, None))
    /\ UNCHANGED <<fp_inputs, fp_hashes>>
    /\ UNCHANGED <<manager, cached_config_hash, file, unsaved, nfaults>>

MissingConfig ==
    /\ \E raw_line \in RawLines :
          LET line == strip(raw_line)
              payload == json_loads(line).payload
              response == ErrorLine(ReqNo, "Missing manager configuration", "")
          IN
          /\ Yield(raw_line, line)
          /\ Decoded(line, payload)
          /\ dict_get_command(payload) # Some("__shutdown__")
          /\ ~config_is_dict(payload)
          /\ Emit(response)
          /\ log' = Remember(log, LogEntry(line, "missing_config", Some(response),
                                           None, FALSE, << >>, << >>, None))
    /\ UNCHANGED <<fp_inputs, fp_hashes>>
    /\ UNCHANGED <<pc, manager, cached_config_hash, file, unsaved, nfaults>>

\* the request reaches ensure_manager
Resolvable(line, payload) ==
    /\ Decoded(line, payload)
    /\ dict_get_command(payload) # Some("__shutdown__")
    /\ config_is_dict(payload)

\* ensure_manager raises
InitFailed ==
    /\ \E raw_line \in RawLines :
          LET line == strip(raw_line)
              payload == json_loads(line).payload
          IN
          /\ Yield(raw_line, line)
          /\ Resolvable(line, payload)
          /\ \E fault \in ResolveFaults :
                LET res == Resolve(payload, fault)
                    bound == bind_session(res, manager, cached_config_hash)
                    response == ErrorLine(ReqNo, "Failed to initialize manager",
                                          res.detail)
                IN
                /\ res.raised
                /\ FaultOk(fault, res.faulted)
                /\ manager' = bound[1]
                /\ cached_config_hash' = bound[2]
                /\ nfaults' = nfaults + (IF res.faulted THEN 1 ELSE 0)
                /\ Emit(response)
                /\ log' = Remember(log, LogEntry(line, "init_failed", Some(response),
                                                 res.hash, res.hit, res.calls,
                                                 << >>, None))
    /\ UNCHANGED <<fp_inputs, fp_hashes>>
    /\ UNCHANGED <<pc, file, unsaved>>

\* variant: the command is examined before the manager is resolved
UnsupportedUnresolved ==
    /\ \E raw_line \in RawLines :
          LET line == strip(raw_line)
              payload == json_loads(line).payload
              response == ErrorLine(ReqNo, "Unsupported command", payload.command)
          IN
          /\ Yield(raw_line, line)
          /\ Resolvable(line, payload)
          /\ dict_get_command(payload) # Some("register")
          /\ Emit(response)
          /\ log' = Remember(log, LogEntry(line, "unsupported", Some(response),
                                           None, FALSE, << >>, << >>, None))
    /\ UNCHANGED <<fp_inputs, fp_hashes>>
    /\ UNCHANGED <<pc, manager, cached_config_hash, file, unsaved, nfaults>>

\* the manager is resolved and the command is not 'register'
Unsupported ==
    /\ \E raw_line \in RawLines :
          LET line == strip(raw_line)
              payload == json_loads(line).payload
              res == Resolve(payload, "none")
              bound == bind_session(res, manager, cached_config_hash)
              response == ErrorLine(ReqNo, "Unsupported command", payload.command)
          IN
          /\ Yield(raw_line, line)
          /\ Resolvable(line, payload)
          /\ dict_get_command(payload) # Some("register")
          /\ ~res.raised
          /\ manager' = bound[1]
          /\ cached_config_hash' = bound[2]
          /\ Emit(response)
          /\ log' = Remember(log, LogEntry(line, "unsupported", Some(response),
                                           res.hash, res.hit, res.calls, << >>, None))
    /\ UNCHANGED <<fp_inputs, fp_hashes>>
    /\ UNCHANGED <<pc, file, unsaved, nfaults>>

\* the manager is resolved and the command is 'register'
Register ==
    /\ \E raw_line \in RawLines :
          LET line == strip(raw_line)
              payload == json_loads(line).payload
              res == Resolve(payload, "none")
              bound == bind_session(res, manager, cached_config_hash)
          IN
          /\ Yield(raw_line, line)
          /\ Resolvable(line, payload)
          /\ dict_get_command(payload) = Some("register")
          /\ ~res.raised
          /\ \E fault \in CommandFaults :
                LET rr == register_and_reinforce(Get(bound[1]), payload, file,
                                                 fault, ReqNo)
                    response ==
                        IF rr.raised
                            THEN ErrorLine(ReqNo, "Void manager error", rr.detail)
                            ELSE ResultLine(ReqNo, rr.events)
                IN
                /\ FaultOk(fault, rr.faulted)
                /\ manager' = Some(rr.handle)
                /\ cached_config_hash' = bound[2]
                /\ file' = rr.file
                /\ unsaved' = Unsaved(unsaved, payload, rr)
                /\ nfaults' = nfaults + (IF rr.faulted THEN 1 ELSE 0)
                /\ Emit(response)
                /\ log' = Remember(log, LogEntry(line,
                              IF rr.raised THEN "manager_error" ELSE "result",
                              Some(response), res.hash, res.hit, res.calls,
                              rr.calls, rr.fwd))
    /\ UNCHANGED <<fp_inputs, fp_hashes>>
    /\ UNCHANGED pc

Next ==
    \/ SkipBlank
    \/ EndOfInput
    \/ InvalidJson
    \/ NotADict
    \/ Shutdown
    \/ MissingConfig
    \/ InitFailed
    \/ Unsupported
    \/ Register

Spec == Init /\ [][Next]_vars

-----------------------------------------------------------------------------
(* The fingerprint on its own                                              *)

\* JSON values of a configuration field: a number, or an array of two
\* different numbers
FPValues ==
    { [arr |-> FALSE, items |-> <<n>>] : n \in 1..MaxValue }
        \cup { [arr |-> TRUE, items |-> <<mn[1], mn[2]>>] :
                    mn \in { x \in (1..MaxValue) \X (1..MaxValue) : x[1] # x[2] } }

FPKeys == {"capacity", "base_ttl"}

\* the dicts over FPKeys, in every insertion order
FPConfigs ==
    { << >> }
        \cup { << <<k, v>> >> : k \in FPKeys, v \in FPValues }
        \cup { << p[1], p[2] >> :
                    p \in { x \in (FPKeys \X FPValues) \X (FPKeys \X FPValues) :
                               x[1][1] # x[2][1] } }

\* main has not started; two configurations are given
InitFP ==
    /\ pc = "running"
    /\ unread = 0
    /\ manager = None
    /\ cached_config_hash = None
    /\ file = FileAbsent
    /\ out = << >>
    /\ nout = 0
    /\ nreq = 0
    /\ log = << >>
    /\ delivered = << >>
    /\ unsaved = {}
    /\ nfaults = 0
    /\ fp_inputs \in FPConfigs \X FPConfigs
    /\ fp_hashes = << >>

\* config_hash = json.dumps(config, sort_keys=True), for both
HashConfigs ==
    /\ fp_hashes = << >>
    /\ fp_hashes' = << json_dumps_sorted(fp_inputs[1]),
                       json_dumps_sorted(fp_inputs[2]) >>
    /\ UNCHANGED <<pc, unread, manager, cached_config_hash, file, out, nout,
                   nreq, log, delivered, unsaved, nfaults, fp_inputs>>

NextFP == HashConfigs

SpecFP == InitFP /\ [][NextFP]_vars

TypeOK ==
    /\ pc \in {"running", "stopped", "eof", "crashed"}
    /\ unread \in 0..MaxLines
    /\ nreq \in 0..MaxLines /\ nout \in 0..nreq
    /\ Len(out) <= 2 /\ Len(log) <= 2
    /\ nfaults \in 0..MaxFaults
    /\ IsNone(manager) \/ Len(manager) = 1

-----------------------------------------------------------------------------
(* Reading the history                                                     *)

\* the requests the history remembers
Requests == 1..Len(log)

\* the line printed for request i
Printed(i) == Get(log[i].printed)

\* the session and the file as request i left them
MgrAfter(i) == IF i < Len(log) THEN log[i + 1].mgrBefore ELSE manager
HashAfter(i) == IF i < Len(log) THEN log[i + 1].hashBefore ELSE cached_config_hash
FileAfter(i) == IF i < Len(log) THEN log[i + 1].fileBefore ELSE file

\* request i reached ensure_manager
Resolving(i) == ~IsNone(log[i].fp)

\* request i found no cached pair for its configuration
Miss(i) ==
    Resolving(i) /\ (IsNone(log[i].mgrBefore) \/ log[i].hashBefore # log[i].fp)

FailureKinds ==
    {"invalid_json", "missing_config", "init_failed", "unsupported", "manager_error"}

-----------------------------------------------------------------------------
(* C1..C3: the request loop                                                *)

\* C1: every line yielded by iter_requests (non-empty after strip) has
\* produced exactly one output line, and the k-th output line answers the
\* k-th such line; blank lines produce none.
C1_OneOutputPerLine ==
    /\ nout = nreq
    /\ \A k \in 1..Len(out) : out[k].req = nout - Len(out) + k

\* C2: main leaves the loop only on '__shutdown__' or at end of input, and
\* every failure of a request has been answered by a line with an 'error'
\* field; at end of input nothing more is printed.
C2_NoRequestCrashes ==
    /\ pc \in {"running", "stopped", "eof"}
    /\ pc = "stopped" => Last(log).resp = "ack"
    /\ pc = "eof" => unread = 0 /\ nout = nreq
    /\ \A i \in Requests :
          log[i].resp \in FailureKinds =>
              ~IsNone(log[i].printed) /\ Printed(i).fields = {"error"}

\* C3: a '__shutdown__' request is acknowledged by the last output line and
\* is the last request handled; it resolves no manager and leaves the
\* session and the state file as they were.
C3_ShutdownTerminates ==
    /\ \A i \in Requests :
          log[i].resp = "ack" =>
              /\ i = Len(log)
              /\ pc = "stopped"
              /\ nout = nreq
              /\ Last(out) = AckLine(nreq)
              /\ log[i].rcalls = << >> /\ log[i].calls = << >>
              /\ manager = log[i].mgrBefore
              /\ cached_config_hash = log[i].hashBefore
              /\ file = log[i].fileBefore
    /\ \A i \in Requests :
          Docs[log[i].line].command = "__shutdown__" => log[i].resp = "ack"

\* a shutdown line that carries a config was read while a manager was
\* cached and lines were still waiting
C3_Witness ==
    /\ pc = "stopped" /\ unread > 0
    /\ ~IsNone(manager)
    /\ "config" \in Docs[Last(log).line].keys

-----------------------------------------------------------------------------
(* C4..C8: resolution of the manager                                       *)

\* requests i and i+1 both reached ensure_manager with the same fingerprint
SameConfigTwice(i) ==
    /\ i < Len(log)
    /\ Resolving(i) /\ Resolving(i + 1)
    /\ log[i].fp = log[i + 1].fp

SecondIsPureHit(i) ==
    /\ Count(log[i].rcalls, "load_manager")
          + Count(log[i + 1].rcalls, "load_manager") <= 1
    /\ log[i + 1].hit
    /\ log[i + 1].rcalls = << >>
    /\ ~IsNone(MgrAfter(i + 1))
    /\ Get(MgrAfter(i + 1)).id = Get(log[i + 1].mgrBefore).id
    /\ HashAfter(i + 1) = log[i + 1].hashBefore

\* C4 (as claimed): of two consecutive requests with the same configuration
\* load_manager runs at most once, and the second ensure_manager is a pure
\* cache hit: same handle, same fingerprint, no file access.
C4_SecondResolutionIsHit ==
    \A i \in Requests : SameConfigTwice(i) => SecondIsPureHit(i)

\* C4 (amended): the same, when the first of the two resolutions did not
\* raise.
C4_HitAfterResolved ==
    \A i \in Requests :
        SameConfigTwice(i) /\ log[i].resp # "init_failed" => SecondIsPureHit(i)

\* two consecutive requests spell the same configuration with different key
\* order; the first one loaded or constructed, the second one hit
C4_Witness ==
    \E i \in Requests :
        /\ SameConfigTwice(i)
        /\ Docs[log[i].line].config # Docs[log[i + 1].line].config
        /\ Count(log[i].rcalls, "load_manager") = 1
        /\ log[i + 1].hit

\* C5: a request whose fingerprint differs from the cached one, or that
\* finds no cached handle, runs load_manager exactly once and, if that
\* succeeds, is not given the handle that was cached before.
C5_MissLoadsFresh ==
    \A i \in Requests :
        Miss(i) =>
            /\ ~log[i].hit
            /\ Count(log[i].rcalls, "load_manager") = 1
            /\ log[i].resp # "init_failed" =>
                  /\ ~IsNone(MgrAfter(i))
                  /\ IsNone(log[i].mgrBefore)
                        \/ Get(MgrAfter(i)).id # Get(log[i].mgrBefore).id

\* with a handle cached, a configuration whose resolution has just failed is
\* sent again and load_manager runs again
C5_Witness ==
    \E i \in Requests :
        /\ SameConfigTwice(i)
        /\ log[i].resp = "init_failed"
        /\ ~IsNone(log[i + 1].mgrBefore)
        /\ Count(log[i + 1].rcalls, "load_manager") = 1

\* C6: when ensure_manager raises, 'Failed to initialize manager' is printed
\* and the session stays as it was; a following request with the cached
\* configuration is a cache hit served by the cached handle.
C6_FailedInitKeepsSession ==
    \A i \in Requests :
        log[i].resp = "init_failed" =>
            /\ Printed(i).fields = {"error"}
            /\ Printed(i).msg = "Failed to initialize manager"
            /\ MgrAfter(i) = log[i].mgrBefore
            /\ HashAfter(i) = log[i].hashBefore
            /\ (/\ i < Len(log)
                /\ ~IsNone(log[i].mgrBefore)
                /\ log[i + 1].fp = log[i].hashBefore)
                  => /\ log[i + 1].hit
                     /\ log[i + 1].rcalls = << >>
                     /\ Get(MgrAfter(i + 1)).id = Get(log[i].mgrBefore).id

\* a failed resolution is followed by a request with the cached
\* configuration
C6_Witness ==
    \E i \in Requests :
        /\ i < Len(log)
        /\ log[i].resp = "init_failed"
        /\ ~IsNone(log[i].mgrBefore)
        /\ log[i + 1].fp = log[i].hashBefore
        /\ log[i + 1].resp = "result"

\* C7: the cached fingerprint is the text of the configuration the cached
\* handle was made from: every constructor parameter of the handle is
\* spelled, with its value, in the cached fingerprint.
C7_FingerprintOfCachedHandle ==
    ~IsNone(manager) =>
        /\ ~IsNone(cached_config_hash)
        /\ \A k \in 1..Len(ParamNames) :
              \E j \in 1..Len(Get(cached_config_hash)) :
                  Get(cached_config_hash)[j]
                      = <<ParamNames[k], Get(manager).params[k]>>

LoadRaised(i) == log[i].resp = "init_failed" /\ Printed(i).detail = "load_json"

Incomplete(fp) == \E k \in 1..Len(ParamNames) : ~HasKey(fp, ParamNames[k])

\* C8: on a miss, a state file that loads is returned as the handle whatever
\* the configuration holds; a handle is constructed only when the file is
\* absent or yields None, and then a configuration that lacks a parameter
\* makes the resolution fail.
C8_LoadTakesPrecedence ==
    \A i \in Requests :
        Miss(i) =>
            /\ (log[i].fileBefore.kind = "state" /\ ~LoadRaised(i)) =>
                  /\ log[i].resp # "init_failed"
                  /\ Count(log[i].rcalls, "construct") = 0
                  /\ Get(MgrAfter(i)).params = log[i].fileBefore.params
                  /\ log[i].fileBefore.chunks \subseteq Get(MgrAfter(i)).chunks
            /\ Count(log[i].rcalls, "construct") > 0 =>
                  log[i].fileBefore.kind \in {"absent", "null"}
            /\ (/\ log[i].fileBefore.kind \in {"absent", "null"}
                /\ Incomplete(Get(log[i].fp))) =>
                  /\ log[i].resp = "init_failed"
                  /\ Count(log[i].rcalls, "construct") = 0

\* a configuration without the constructor parameters was resolved from the
\* state file
C8_Witness ==
    \E i \in Requests :
        /\ Miss(i)
        /\ log[i].fileBefore.kind = "state"
        /\ Incomplete(Get(log[i].fp))
        /\ log[i].resp \in {"result", "unsupported"}

-----------------------------------------------------------------------------
(* C9, C10: register_and_reinforce                                         *)

\* C9: no event is carried by the 'events' field of two responses.
C9_EventsDeliveredOnce ==
    \A a, b \in 1..Len(delivered) : a # b => delivered[a] # delivered[b]

\* calls made on the handle (mkdir is a call on the file system)
HandleCalls(calls) == SelectSeq(calls, LAMBDA c : c # "mkdir")

IsPrefix(s, t) == Len(s) <= Len(t) /\ s = SubSeq(t, 1, Len(s))

ExpectedCalls(i) ==
    <<"register_chunks">>
        \o (IF "reinforce" \in Docs[log[i].line].keys
                   /\ Docs[log[i].line].reinforce # << >>
               THEN <<"reinforce">> ELSE << >>)
        \o <<"save_json", "stats", "consume_events", "top">>

\* request i ran register_and_reinforce and its register step and, if
\* requested, its reinforce step returned
RegisteredAndReinforced(i) ==
    \/ log[i].resp = "result"
    \/ /\ log[i].resp = "manager_error"
       /\ Printed(i).detail \notin {"ids", "texts", "register_chunks", "reinforce"}

\* C10 (as claimed): such a request calls register_chunks, reinforce if
\* requested, save, stats, consume_events, top in this order, saves exactly
\* once and answers with exactly stats, events and top.
C10_RegisterSequence ==
    \A i \in Requests :
        RegisteredAndReinforced(i) =>
            /\ HandleCalls(log[i].calls) = ExpectedCalls(i)
            /\ Count(log[i].calls, "save_json") = 1
            /\ Printed(i).fields = {"stats", "events", "top"}

\* C10 (amended): such a request makes its calls in this order up to the
\* first one that raises, calls save exactly once, and answers with exactly
\* stats, events and top when none of save, stats, consume_events and top
\* raises; otherwise it answers with an error.
C10_RegisterSequenceUntilRaise ==
    \A i \in Requests :
        RegisteredAndReinforced(i) =>
            /\ IsPrefix(HandleCalls(log[i].calls), ExpectedCalls(i))
            /\ Count(log[i].calls, "save_json") = 1
            /\ log[i].resp = "result" =>
                  /\ HandleCalls(log[i].calls) = ExpectedCalls(i)
                  /\ Printed(i).fields = {"stats", "events", "top"}
            /\ log[i].resp = "manager_error" =>
                  /\ Printed(i).fields = {"error"}
                  /\ Printed(i).msg = "Void manager error"

\* a register request with a reinforce object was answered with a result
C10_Witness ==
    \E i \in Requests :
        /\ log[i].resp = "result"
        /\ Docs[log[i].line].reinforce # << >>
        /\ Len(log[i].calls) = 7

\* request i ran register_and_reinforce and its register_chunks returned
Registered(i) ==
    /\ log[i].resp \in {"result", "manager_error"}
    /\ Count(log[i].calls, "register_chunks") = 1
    /\ Printed(i).detail # "register_chunks"

\* the 'reinforce' object of request i is there and is not empty
AsksReinforce(i) ==
    /\ "reinforce" \in Docs[log[i].line].keys
    /\ Docs[log[i].line].reinforce # << >>

\* C11: manager.reinforce is called exactly when the 'reinforce' object is
\* present and non-empty; its results hold exactly the keys 'ids' and
\* 'distances' that the caller supplied, with the supplied values, and
\* heat_gain and ttl_boost are the values given, 0.5 and 60 when not given.
C11_ReinforceForwarding ==
    \A i \in Requests :
        LET d == Docs[log[i].line] IN
        /\ ~IsNone(log[i].fwd) <=> Count(log[i].calls, "reinforce") = 1
        /\ Count(log[i].calls, "reinforce") <= 1
        /\ Registered(i) => (AsksReinforce(i) <=> ~IsNone(log[i].fwd))
        /\ ~Registered(i) => IsNone(log[i].fwd)
        /\ ~IsNone(log[i].fwd) =>
              LET call == Get(log[i].fwd) IN
              /\ \A j \in 1..Len(call.results) :
                    call.results[j][1] \in {"ids", "distances"}
              /\ \A k \in {"ids", "distances"} :
                    /\ HasKey(call.results, k) <=> HasKey(d.reinforce, k)
                    /\ HasKey(call.results, k) =>
                          Lookup(call.results, k) = Lookup(d.reinforce, k)
              /\ call.heat_gain =
                    (IF "heat_gain" \in d.keys THEN d.heat_gain ELSE "0.5")
              /\ call.ttl_boost =
                    (IF "ttl_boost" \in d.keys THEN d.ttl_boost ELSE 60)

\* a reinforce object with only 'ids' was forwarded as only 'ids', with the
\* default heat_gain and ttl_boost
C11_Witness ==
    \E i \in Requests :
        /\ ~IsNone(log[i].fwd)
        /\ Get(log[i].fwd) = ReinforceCall(<< <<"ids", <<2>>>> >>, "0.5", 60)

-----------------------------------------------------------------------------
(* C12: memory and disk                                                    *)

\* request i called save_json and it returned
Saved(i) ==
    /\ Count(log[i].calls, "save_json") = 1
    /\ Printed(i).detail # "save_json"

\* C12: chunks that a failed register request left in memory only are in
\* the state written by the next save that succeeds.
C12_NextSaveWritesUnsaved ==
    \A i \in Requests :
        Saved(i) =>
            /\ FileAfter(i).kind = "state"
            /\ log[i].unsavedBefore \subseteq FileAfter(i).chunks

-----------------------------------------------------------------------------
(* C13: the fingerprint                                                    *)

\* the key/value pairs of a configuration
Pairs(config) == { config[i] : i \in 1..Len(config) }

\* b is a with the elements of at least one array in the other order
ArrayOrderOnly(a, b) ==
    /\ Len(a) = Len(b)
    /\ \A i \in 1..Len(a) :
          /\ HasKey(b, a[i][1])
          /\ LET v == a[i][2]
                 w == Lookup(b, a[i][1])
             IN  /\ v.arr = w.arr
                 /\ w.items = v.items \/ (v.arr /\ w.items = Reverse(v.items))
    /\ \E i \in 1..Len(a) : Lookup(b, a[i][1]) # a[i][2]

\* C13: two configurations have the same fingerprint exactly when they hold
\* the same key/value pairs, whatever the key order; configurations that
\* differ only in the order of the elements of an array have different
\* fingerprints.
C13_FingerprintIffSamePairs ==
    fp_hashes # << >> =>
        /\ (fp_hashes[1] = fp_hashes[2])
              <=> (Pairs(fp_inputs[1]) = Pairs(fp_inputs[2]))
        /\ ArrayOrderOnly(fp_inputs[1], fp_inputs[2])
              => fp_hashes[1] # fp_hashes[2]

\* two dicts with an array field, written in different key order, got the
\* same fingerprint
C13_Witness ==
    /\ fp_hashes # << >>
    /\ Len(fp_inputs[1]) = 2
    /\ fp_inputs[1] # fp_inputs[2]
    /\ fp_inputs[1][1][2].arr
    /\ fp_hashes[1] = fp_hashes[2]

\* two dicts that differ only in the order of an array were fingerprinted
C13_WitnessArrayOrder ==
    /\ fp_hashes # << >>
    /\ ArrayOrderOnly(fp_inputs[1], fp_inputs[2])

-----------------------------------------------------------------------------
(* C14..C18: what each kind of request touches                             *)

\* the line of request i is not JSON
Malformed(i) == Docs[log[i].line].syntax = "garbage"

\* the line of request i is an object, not a shutdown, whose 'config' is
\* missing or is not an object
WithoutMappingConfig(i) ==
    LET doc == Docs[log[i].line] IN
    /\ doc.syntax = "json"
    /\ doc.type = "object"
    /\ ~("command" \in doc.keys /\ doc.command = "__shutdown__")
    /\ ~("config" \in doc.keys /\ doc.configIsDict)

\* request i left the session, the handle and the file as they were
Untouched(i) ==
    /\ MgrAfter(i) = log[i].mgrBefore
    /\ HashAfter(i) = log[i].hashBefore
    /\ FileAfter(i) = log[i].fileBefore

\* C14: a request rejected as malformed JSON or for a missing or non-mapping
\* config leaves the cached handle, its contents, the cached fingerprint and
\* the file unchanged, and makes no load, construct or save.
C14_RejectedLeavesState ==
    \A i \in Requests :
        (Malformed(i) \/ WithoutMappingConfig(i)) =>
            /\ Printed(i).fields = {"error"}
            /\ Printed(i).msg = IF Malformed(i) THEN "Invalid JSON payload"
                                ELSE "Missing manager configuration"
            /\ Untouched(i)
            /\ log[i].rcalls = << >>
            /\ log[i].calls = << >>

\* with a handle cached and a state file written, a malformed line and a
\* request with a non-mapping config were rejected
C14_Witness ==
    /\ Len(log) = 2
    /\ Malformed(1)
    /\ WithoutMappingConfig(2)
    /\ "config" \in Docs[log[2].line].keys
    /\ ~IsNone(log[1].mgrBefore)
    /\ log[1].fileBefore.kind = "state"

\* the line of request i is an object with a mapping config and a command
\* that is neither 'register' nor '__shutdown__'
OtherCommand(i) ==
    LET doc == Docs[log[i].line] IN
    /\ doc.syntax = "json"
    /\ doc.type = "object"
    /\ "config" \in doc.keys /\ doc.configIsDict
    /\ "command" \in doc.keys
    /\ doc.command \notin {"register", "__shutdown__"}

\* request i left the session as ensure_manager leaves it for the
\* configuration of its line: the cached handle on a hit, else the handle
\* load_manager makes from the file, with the fingerprint of the
\* configuration
SessionResolved(i) ==
    LET config == Docs[log[i].line].config
        wasHit == /\ ~IsNone(log[i].mgrBefore)
                  /\ log[i].hashBefore = Some(json_dumps_sorted(config))
    IN  /\ log[i].fp = Some(json_dumps_sorted(config))
        /\ HashAfter(i) = log[i].fp
        /\ log[i].hit = wasHit
        /\ IF wasHit
              THEN /\ MgrAfter(i) = log[i].mgrBefore
                   /\ log[i].rcalls = << >>
              ELSE /\ log[i].rcalls[1] = "load_manager"
                   /\ MgrAfter(i) = load_manager(config, log[i].fileBefore,
                                                 "none", log[i].req).handle
                   /\ ~IsNone(MgrAfter(i))

\* C15: a request with a mapping config and a command other than 'register'
\* and '__shutdown__' is resolved before its command is examined.  Unless
\* the resolution raises, the session is left as ensure_manager leaves it
\* for that config, the next request with that config is a cache hit, the
\* response is 'Unsupported command: <command>', and nothing is called on
\* the handle and nothing is saved.
C15_UnsupportedStillResolves ==
    \A i \in Requests :
        OtherCommand(i) =>
            /\ Resolving(i)
            /\ log[i].resp \in {"unsupported", "init_failed"}
            /\ log[i].resp = "unsupported" =>
                  /\ SessionResolved(i)
                  /\ Printed(i).fields = {"error"}
                  /\ Printed(i).msg = "Unsupported command"
                  /\ Printed(i).detail = Docs[log[i].line].command
                  /\ Printed(i).events = << >>
                  /\ log[i].calls = << >>
                  /\ IsNone(log[i].fwd)
                  /\ FileAfter(i) = log[i].fileBefore
                  /\ (i < Len(log) /\ log[i + 1].fp = log[i].fp)
                        => /\ log[i + 1].hit
                           /\ log[i + 1].rcalls = << >>
                           /\ log[i + 1].mgrBefore = MgrAfter(i)

\* an unsupported command replaced the cached session, and the register
\* request after it, with the same config, was served from the cache
C15_Witness ==
    /\ Len(log) = 2
    /\ OtherCommand(1)
    /\ log[1].resp = "unsupported"
    /\ ~IsNone(log[1].mgrBefore)
    /\ log[1].hashBefore # log[1].fp
    /\ log[2].resp = "result"
    /\ log[2].fp = log[1].fp
    /\ log[2].hit

\* the line of request i decodes to a value whose command is not
\* '__shutdown__' and which carries no mapping config
ParsedWithoutConfig(i) ==
    LET doc == Docs[log[i].line] IN
    /\ doc.syntax = "json"
    /\ ~("command" \in doc.keys /\ doc.command = "__shutdown__")
    /\ ~("config" \in doc.keys /\ doc.configIsDict)

\* C16: the checks of a request run in the order parse, shutdown, config,
\* resolve, dispatch and the response is that of the first one that fails:
\* an unparsable line yields 'Invalid JSON payload'; a parsed request
\* without a mapping config yields 'Missing manager configuration' unless
\* it is a shutdown; a failed resolution yields 'Failed to initialize
\* manager' whatever the command; 'Unsupported command' and 'Void manager
\* error' are printed only after a successful resolution.
C16_FirstFailingCheck ==
    \A i \in Requests :
        /\ ~IsNone(log[i].printed)
        /\ Malformed(i) => Printed(i).msg = "Invalid JSON payload"
        /\ ParsedWithoutConfig(i)
              => Printed(i).msg = "Missing manager configuration"
        /\ (Resolving(i) /\ Count(log[i].rcalls, "load_manager") = 1
              /\ IsNone(load_manager(Docs[log[i].line].config, log[i].fileBefore,
                                     "none", log[i].req).handle))
              => Printed(i).msg = "Failed to initialize manager"
        /\ Printed(i).msg \in {"Unsupported command", "Void manager error"}
              => /\ Resolving(i)
                 /\ HashAfter(i) = log[i].fp
                 /\ ~IsNone(MgrAfter(i))

\* request i called save_json, or left another file than it found
Wrote(i) ==
    \/ Count(log[i].calls, "save_json") > 0
    \/ FileAfter(i) # log[i].fileBefore

\* reinforce was called for request i and raised
ReinforceRaised(i) ==
    /\ log[i].resp = "manager_error"
    /\ Count(log[i].calls, "reinforce") = 1
    /\ Printed(i).detail = "reinforce"

\* C17: the file is written only by a register request, after its
\* register_chunks and, when asked for, its reinforce have returned; no
\* other kind of request writes it; a register request whose reinforce
\* raises does not save, and the cached handle keeps the chunks it
\* registered.
C17_FileWrittenOnlyByRegister ==
    \A i \in Requests :
        /\ Wrote(i) =>
              /\ Docs[log[i].line].command = "register"
              /\ Registered(i)
              /\ AsksReinforce(i) =>
                    /\ Count(log[i].calls, "reinforce") = 1
                    /\ ~ReinforceRaised(i)
              /\ \E k \in 1..Len(log[i].calls) :
                    /\ log[i].calls[k] = "save_json"
                    /\ SelectSeq(SubSeq(log[i].calls, 1, k - 1),
                                 LAMBDA c : c # "mkdir") =
                          (IF AsksReinforce(i)
                              THEN <<"register_chunks", "reinforce">>
                              ELSE <<"register_chunks">>)
        /\ log[i].resp \in {"invalid_json", "missing_config", "ack", "traceback",
                            "unsupported", "init_failed"} => ~Wrote(i)
        /\ ReinforceRaised(i) =>
              /\ ~Wrote(i)
              /\ Docs[log[i].line].ids \subseteq Get(MgrAfter(i)).chunks

\* reinforce raised for a request that found no file: none was written, and
\* the cached handle holds the chunk
C17_Witness ==
    \E i \in Requests :
        /\ ReinforceRaised(i)
        /\ log[i].fileBefore.kind = "absent"
        /\ FileAfter(i).kind = "absent"
        /\ Docs[log[i].line].ids # {}
        /\ Docs[log[i].line].ids \subseteq Get(MgrAfter(i)).chunks

\* the line of request i is a register request with a mapping config that
\* lacks 'ids' or 'texts'
RegisterWithoutInputs(i) ==
    LET doc == Docs[log[i].line] IN
    /\ doc.syntax = "json"
    /\ doc.type = "object"
    /\ "config" \in doc.keys /\ doc.configIsDict
    /\ "command" \in doc.keys /\ doc.command = "register"
    /\ ~({"ids", "texts"} \subseteq doc.keys)

\* C18: a register request with a mapping config but without 'ids' or
\* without 'texts' is answered, unless its resolution raises, by 'Void
\* manager error' naming the missing key; nothing is called on the handle
\* and nothing is saved; the session is as the resolution left it.
C18_MissingInputs ==
    \A i \in Requests :
        RegisterWithoutInputs(i) =>
            /\ log[i].resp \in {"manager_error", "init_failed"}
            /\ log[i].resp = "manager_error" =>
                  /\ Printed(i).fields = {"error"}
                  /\ Printed(i).msg = "Void manager error"
                  /\ Printed(i).detail =
                        (IF "ids" \in Docs[log[i].line].keys THEN "texts" ELSE "ids")
                  /\ Printed(i).events = << >>
                  /\ log[i].calls = << >>
                  /\ IsNone(log[i].fwd)
                  /\ FileAfter(i) = log[i].fileBefore
                  /\ SessionResolved(i)

\* a register request with 'ids' and no 'texts' replaced the cached
\* session and was answered by the error
C18_Witness ==
    \E i \in Requests :
        /\ RegisterWithoutInputs(i)
        /\ "ids" \in Docs[log[i].line].keys
        /\ log[i].resp = "manager_error"
        /\ ~IsNone(log[i].mgrBefore)
        /\ log[i].hashBefore # log[i].fp
        /\ HashAfter(i) = log[i].fp

\* a register request with 'texts' and no 'ids' was answered by the error
C18_WitnessNoIds ==
    \E i \in Requests :
        /\ RegisterWithoutInputs(i)
        /\ "ids" \notin Docs[log[i].line].keys
        /\ log[i].resp = "manager_error"

-----------------------------------------------------------------------------
(* C19: the cached pair                                                    *)

\* C19: the cached handle and the cached fingerprint are both absent or
\* both present, before and after every request, and a request that finds
\* a handle cached leaves one cached.
C19_SessionPairTogether ==
    /\ IsNone(manager) = IsNone(cached_config_hash)
    /\ \A i \in Requests :
          /\ IsNone(log[i].mgrBefore) = IsNone(log[i].hashBefore)
          /\ IsNone(MgrAfter(i)) = IsNone(HashAfter(i))
          /\ ~IsNone(log[i].mgrBefore) => ~IsNone(MgrAfter(i))

\* a first resolution raised and left both absent; the next request cached
\* both
C19_Witness ==
    /\ Len(log) = 2
    /\ log[1].resp = "init_failed"
    /\ IsNone(log[1].mgrBefore)
    /\ IsNone(log[2].mgrBefore)
    /\ IsNone(log[2].hashBefore)
    /\ ~IsNone(manager)
    /\ ~IsNone(cached_config_hash)

\* with both cached, a resolution raised and both stayed
C19_WitnessKept ==
    \E i \in Requests :
        /\ log[i].resp = "init_failed"
        /\ ~IsNone(log[i].mgrBefore)
        /\ ~IsNone(MgrAfter(i))
        /\ HashAfter(i) = log[i].hashBefore

====
